---------------------------- MODULE Spec2Model ----------------------------
(***************************************************************************)
(* Collection-tree reconstruction of raindrop-mcp.                         *)
(*                                                                         *)
(* get_collections fetches a flat list of collection records, builds an    *)
(* id -> record mapping, links every record under its parent (or keeps it  *)
(* as a root), fetches the user's groups and partitions the roots over     *)
(* them.  Two revisions of the operation are modelled:                     *)
(*   - src/src/raindrop_mcp/raindrop.py : one fetch (collections/all);     *)
(*   - src/raindrop.py : two fetches (collections/childrens, collections)  *)
(*     merged into one mapping.                                            *)
(*                                                                         *)
(* Modelling conventions                                                   *)
(*   - a CollectionItem is a record [id, parent, title]; its mutable       *)
(*     `items` field lives in the heap variable items_of, keyed by the id  *)
(*     of the mapping entry that owns it, because the code can build       *)
(*     cyclic object graphs;                                               *)
(*   - an Optional[Parent] is a sequence: << >> is None, <<p>> is          *)
(*     Parent(id = p);                                                     *)
(*   - a Python dict is a sequence of its values in insertion order (the   *)
(*     key of a value is its id);                                          *)
(*   - a list that is None and a list that is empty are both << >>: the    *)
(*     code only ever tests them with `not`.                               *)
(***************************************************************************)
EXTENDS Integers, Sequences, FiniteSets, TLC

(* ------------------------------ bounds --------------------------------- *)
\* collection ids are 0..MaxId; MaxId + 1 is an id no record carries
MaxId == 2
\* longest flat list the remote returns to the tree builder
MaxLen == 3
\* partitioning: root ids are 1..MaxRoots, at most MaxGroups groups
MaxRoots == 2
MaxGroups == 2
\* two-fetch revision: longest list each of the two fetches returns
MaxBatch == 2
\* repeated calls: longest flat list a call fetches
MaxCallLen == 2

\* longest answer of 'collections/all' to one of two concurrent callers
MaxConcLen == 2

\* longest answer of 'collections/all' in the termination specification
MaxLiveLen == 3

\* number of raindrops in the remote account
MaxDrop == 2

VARIABLES
    pc,               \* position of the running get_collections call
    collections,      \* CollectionItems(**data).items of the (children) fetch
    root_collections, \* get_root_collections(True) (two-fetch revision only)
    collections_map,  \* dict id -> CollectionItem, in insertion order
    idx,              \* position of the build loop in collections_map.values()
    root_items,       \* list of root CollectionItems
    items_of,         \* id |-> the `items` list of collections_map[id]
    user_groups,      \* the groups as the remote returned them
    groups,           \* the Group objects being partitioned
    gidx,             \* position of the partition loop in groups
    result,           \* "pending", "None", "groups" or "raised"
    callers,          \* concurrent callers: caller |-> the locals of its call
    remote,           \* the remote raindrops: raindrop |-> where it is
    client            \* the call of a raindrop operation and its requests

vars == <<pc, collections, root_collections, collections_map, idx, root_items,
          items_of, user_groups, groups, gidx, result, callers, remote,
          client>>

(* ----------------------------- helpers --------------------------------- *)
Range(s) == {s[i] : i \in 1..Len(s)}

SeqsUpTo(S, n) == UNION {[1..k -> S] : k \in 0..n}

Ids == 0..MaxId

\* parent references of the fetched records: None, a collection id, or the
\* id MaxId + 1 that no record carries (a dangling reference)
ParentRefs == {<< >>} \cup {<<p>> : p \in 0..(MaxId + 1)}

Records(ids, parents, titles) == [id : ids, parent : parents, title : titles]

\* Python truthiness of an int
Truthy(n) == n # 0

\* `k in d` for a dict d
HasKey(d, k) == \E i \in 1..Len(d) : d[i].id = k

Keys(d) == {d[i].id : i \in 1..Len(d)}

\* a slip of DictPut: an existing key is deleted and inserted again, so it
\* moves to the end
DictPutMoveToEnd(d, r) ==
    Append(SelectSeq(d, LAMBDA e : e.id # r.id), r)

\* `d[r.id] = r`: an existing key keeps its position and takes the new value
DictPut(d, r) ==
    IF HasKey(d, r.id)
    THEN [i \in 1..Len(d) |-> IF d[i].id = r.id THEN r ELSE d[i]]
    ELSE Append(d, r)

\* `d.update({item.id: item for item in s})`
RECURSIVE DictUpdate(_, _)
DictUpdate(d, s) ==
    IF s = << >> THEN d ELSE DictUpdate(DictPut(d, Head(s)), Tail(s))

\* `{item.id: item for item in s}`
DictOf(s) == DictUpdate(<< >>, s)

(* --------------------------- tree builder ------------------------------ *)
\* a slip of LoopBody: no `continue` after the append to the parent's items,
\* so the record also falls through to the root list
LoopBodyNoContinue(map, roots, its, item) ==
    IF item.parent = << >>
    THEN [roots |-> Append(roots, item), its |-> its]
    ELSE LET parent_id == item.parent[1] IN
         IF Truthy(parent_id) /\ HasKey(map, parent_id)
         THEN [roots |-> Append(roots, item),
               its   |-> [its EXCEPT ![parent_id] = Append(@, item)]]
         ELSE [roots |-> Append(roots, item), its |-> its]

\* a slip of LoopBody: no final root_items.append(item), so a record whose
\* parent does not resolve is dropped
LoopBodyDropDangling(map, roots, its, item) ==
    IF item.parent = << >>
    THEN [roots |-> Append(roots, item), its |-> its]
    ELSE LET parent_id == item.parent[1] IN
         IF Truthy(parent_id) /\ HasKey(map, parent_id)
         THEN [roots |-> roots,
               its   |-> [its EXCEPT ![parent_id] = Append(@, item)]]
         ELSE [roots |-> roots, its |-> its]

\* one iteration of `for item in collections_map.values()`: the new root
\* list and the new `items` lists
LoopBody(map, roots, its, item) ==
    IF item.parent = << >>
    THEN [roots |-> Append(roots, item), its |-> its]
    ELSE LET parent_id == item.parent[1] IN
         IF Truthy(parent_id) /\ HasKey(map, parent_id)
         THEN [roots |-> roots,
               its   |-> [its EXCEPT ![parent_id] = Append(@, item)]]
         ELSE [roots |-> Append(roots, item), its |-> its]

(* ------------------------------ state ---------------------------------- *)
\* two callers may run get_collections at the same time
Callers == {1, 2}

\* the raindrops of the remote account
Drops == 1..MaxDrop

\* the id of the trash collection: 'raindrops/-99'
Trash == 0 - 99

\* where a raindrop is once it has been removed from the trash
Gone == 0 - 1

\* no raindrop operation has been called
IdleClient ==
    [pc |-> "idle", op |-> "none",
     args |-> [id |-> 0, nested |-> FALSE, search |-> << >>, ids |-> << >>,
               permanent |-> FALSE],
     log |-> << >>, moved |-> {}, before |-> << >>,
     result |-> [kind |-> "pending", value |-> 0]]

\* the locals of a call that has not started
InitFrame ==
    [pc |-> "start", collections |-> << >>, collections_map |-> << >>,
     idx |-> 1, root_items |-> << >>, items_of |-> << >>,
     user_groups |-> << >>, groups |-> << >>, gidx |-> 1,
     result |-> "pending"]

Init ==
    /\ pc = "start"
    /\ collections = << >>
    /\ root_collections = << >>
    /\ collections_map = << >>
    /\ idx = 1
    /\ root_items = << >>
    /\ items_of = << >>
    /\ user_groups = << >>
    /\ groups = << >>
    /\ gidx = 1
    /\ result = "pending"
    /\ callers = [p \in Callers |-> InitFrame]
    /\ remote = [d \in Drops |-> 1]
    /\ client = IdleClient

(* ------------------------- remote data source -------------------------- *)
GroupTitles == <<"A", "B", "C", "D", "E">>

\* user.groups as deserialised: at most n groups, each listing member ids
\* drawn from members; `items` is still None
GroupsUpTo(n, members) ==
    UNION {{[i \in 1..k |-> [title |-> GroupTitles[i], collections |-> f[i],
                             items |-> << >>]] : f \in [1..k -> SUBSET members]}
           : k \in 0..n}

\* the flat lists the tree-builder specification feeds to get_collections
TreeInputs == SeqsUpTo(Records(Ids, ParentRefs, {"t"}), MaxLen)

\* the group lists the tree-builder specification feeds to get_collections
TreeGroups == GroupsUpTo(1, {1})

\* sequences without repetition
Injective(s) == \A i, j \in 1..Len(s) : s[i].id = s[j].id => i = j

\* the partitioning specification: every list of distinct collections with
\* ids in 1..MaxRoots, each top-level or nested under collection 1 ...
PartitionInputs ==
    {s \in SeqsUpTo(Records(1..MaxRoots, {<< >>, <<1>>}, {"t"}), MaxRoots) :
        Injective(s)}

\* ... and every list of at most MaxGroups groups over those ids
PartitionGroups == GroupsUpTo(MaxGroups, 1..MaxRoots)

(* ------------- get_collections, src/src/raindrop_mcp/raindrop.py ------- *)
Return(value) ==
    /\ pc' = "done"
    /\ result' = value

\* make_request: raise_for_status() or response.json() raises
FetchRaises ==
    /\ pc = "start"
    /\ Return("raised")
    /\ UNCHANGED <<callers, remote, client>>
    /\ UNCHANGED <<collections, root_collections, collections_map, idx,
                   root_items, items_of, user_groups, groups, gidx>>

\* `if not data: return None`
FetchNoData ==
    /\ pc = "start"
    /\ Return("None")
    /\ UNCHANGED <<callers, remote, client>>
    /\ UNCHANGED <<collections, root_collections, collections_map, idx,
                   root_items, items_of, user_groups, groups, gidx>>

\* data = make_request('GET', 'collections/all');
\* `if not collections.items: return None`
FetchAll(inputs) ==
    /\ pc = "start"
    /\ \E s \in inputs :
          /\ collections' = s
          /\ IF s = << >>
             THEN Return("None")
             ELSE pc' = "map" /\ result' = result
    /\ UNCHANGED <<callers, remote, client>>
    /\ UNCHANGED <<root_collections, collections_map, idx, root_items,
                   items_of, user_groups, groups, gidx>>

\* a slip of FreshRootItems: the root list outlives the call (a module-level
\* list that is never emptied)
StaleRootItems == root_items

\* `root_items: list[CollectionItem] = []`: a new list in every call
FreshRootItems == << >>

\* collections_map = {item.id: item for item in collections.items}
BuildMap ==
    /\ pc = "map"
    /\ collections_map' = DictOf(collections)
    /\ items_of' = [k \in Keys(DictOf(collections)) |-> << >>]
    /\ root_items' = FreshRootItems
    /\ idx' = 1
    /\ pc' = "loop"
    /\ UNCHANGED <<callers, remote, client>>
    /\ UNCHANGED <<collections, root_collections, user_groups, groups, gidx,
                   result>>

\* a slip of NextEntry: the iteration passes over every other entry
SkipEntry(i) == i + 2

\* `for item in collections_map.values()`: the iterator moves to the next
\* entry of the mapping
NextEntry(i) == i + 1

\* one iteration of the build loop
LoopStep ==
    /\ pc = "loop"
    /\ idx <= Len(collections_map)
    /\ LET out == LoopBody(collections_map, root_items, items_of,
                           collections_map[idx]) IN
          /\ root_items' = out.roots
          /\ items_of' = out.its
    /\ idx' = NextEntry(idx)
    /\ pc' = IF NextEntry(idx) > Len(collections_map) THEN "groups" ELSE "loop"
    /\ UNCHANGED <<callers, remote, client>>
    /\ UNCHANGED <<collections, root_collections, collections_map,
                   user_groups, groups, gidx, result>>

\* get_groups(): make_request('GET', 'user') raises
GroupsRaises ==
    /\ pc = "groups"
    /\ Return("raised")
    /\ UNCHANGED <<callers, remote, client>>
    /\ UNCHANGED <<collections, root_collections, collections_map, idx,
                   root_items, items_of, user_groups, groups, gidx>>

\* a slip of NoGroups: an empty group list is returned as it is
NoGroupsEmptyList == "groups"

\* `if not groups: return None`: what get_collections returns when
\* get_groups() gives None or an empty list
NoGroups == "None"

\* groups = get_groups(); `if not groups: return None` (no user data, or an
\* empty group list)
GetGroups(inputs) ==
    /\ pc = "groups"
    /\ \E g \in inputs :
          /\ user_groups' = g
          /\ groups' = g
          /\ IF g = << >>
             THEN Return(NoGroups)
             ELSE pc' = "partition" /\ result' = result
    /\ gidx' = 1
    /\ UNCHANGED <<callers, remote, client>>
    /\ UNCHANGED <<collections, root_collections, collections_map, idx,
                   root_items, items_of>>

\* [c for c in root_items if c.id in group.collections]
Claimed(roots, group) == SelectSeq(roots, LAMBDA c : c.id \in group.collections)

\* a slip of PartitionedGroup: the member list is not cleared
PartitionedGroupKeepsMembers(group, roots) ==
    [title |-> group.title, collections |-> group.collections,
     items |-> Claimed(roots, group)]

\* group.items = [c for c in ... if c.id in group.collections]
\* group.collections = None
PartitionedGroup(group, roots) ==
    [title |-> group.title, collections |-> {},
     items |-> Claimed(roots, group)]

\* one iteration of `for group in groups`
PartitionStep ==
    /\ pc = "partition"
    /\ gidx <= Len(groups)
    /\ groups' = [groups EXCEPT ![gidx] = PartitionedGroup(@, root_items)]
    /\ gidx' = gidx + 1
    /\ pc' = IF gidx + 1 > Len(groups) THEN "ungrouped" ELSE "partition"
    /\ UNCHANGED <<callers, remote, client>>
    /\ UNCHANGED <<collections, root_collections, collections_map, idx,
                   root_items, items_of, user_groups, result>>

\* `n == c` for an int n and a CollectionItem c: int.__eq__ and the pydantic
\* BaseModel.__eq__ both decline (the model compares only with another
\* model), so Python falls back to identity and the answer is False
IntEqItem(n, c) == FALSE

\* `n in lst` for an int n and a list of CollectionItem
IntInItems(n, lst) == \E i \in 1..Len(lst) : IntEqItem(n, lst[i])

\* [c for c in root_items if all(c.id not in g.items for g in groups)]
UngroupedItems(roots, gs) ==
    SelectSeq(roots, LAMBDA c :
        \A i \in 1..Len(gs) : ~IntInItems(c.id, gs[i].items))

\* a slip of ExtendFirst: the leftovers go to the last group
ExtendLast(gs, extra) == [gs EXCEPT ![Len(gs)].items = @ \o extra]

\* a slip of ExtendFirst: only the catch-all group is kept
ExtendFirstOnly(gs, extra) == <<[gs[1] EXCEPT !.items = @ \o extra]>>

\* groups[0].items.extend(ungrouped_items)
ExtendFirst(gs, extra) == [gs EXCEPT ![1].items = @ \o extra]

\* `if groups: ... groups[0].items.extend(ungrouped_items)`; return groups
Ungrouped ==
    /\ pc = "ungrouped"
    /\ groups' = ExtendFirst(groups, UngroupedItems(root_items, groups))
    /\ Return("groups")
    /\ UNCHANGED <<callers, remote, client>>
    /\ UNCHANGED <<collections, root_collections, collections_map, idx,
                   root_items, items_of, user_groups, gidx>>

(* ------- get_top_collections, src/src/raindrop_mcp/raindrop.py --------- *)
\* data = make_request('GET', 'collections'); collections =
\* CollectionItems(**data) with flat = False.  The partition loop filters
\* collections.items, which root_items holds from here on; an empty list is
\* no early return.  FetchRaises and FetchNoData are its failed fetches.
FetchTop(inputs) ==
    /\ pc = "start"
    /\ \E s \in inputs :
          /\ collections' = s
          /\ root_items' = s
    /\ pc' = "groups"
    /\ UNCHANGED <<callers, remote, client>>
    /\ UNCHANGED <<root_collections, collections_map, idx, items_of,
                   user_groups, groups, gidx, result>>

(* --------------- get_root_collections, src/raindrop.py ----------------- *)
\* data = make_request('GET', 'collections') is None or empty:
\* `if not data: return None`
FetchRootListNoData ==
    /\ pc = "start"
    /\ Return("None")
    /\ UNCHANGED <<callers, remote, client>>
    /\ UNCHANGED <<collections, root_collections, collections_map, idx,
                   root_items, items_of, user_groups, groups, gidx>>

\* collections = CollectionItems(**data) with flat = False; root_items holds
\* collections.items for the partition loop
FetchRootList(inputs) ==
    /\ pc = "start"
    /\ \E s \in inputs :
          /\ collections' = s
          /\ root_items' = s
    /\ pc' = "root_groups"
    /\ UNCHANGED <<callers, remote, client>>
    /\ UNCHANGED <<root_collections, collections_map, idx, items_of,
                   user_groups, groups, gidx, result>>

\* groups = get_groups(); `if not groups: return None`
GetRootGroups(inputs) ==
    /\ pc = "root_groups"
    /\ \E g \in inputs :
          /\ user_groups' = g
          /\ groups' = g
          /\ IF g = << >>
             THEN Return(NoGroups)
             ELSE pc' = "root_partition" /\ result' = result
    /\ gidx' = 1
    /\ UNCHANGED <<callers, remote, client>>
    /\ UNCHANGED <<collections, root_collections, collections_map, idx,
                   root_items, items_of>>

\* one iteration of `for group in groups`; after the last one
\* `return groups`: this revision has no catch-all for unclaimed collections
RootPartitionStep ==
    /\ pc = "root_partition"
    /\ gidx <= Len(groups)
    /\ groups' = [groups EXCEPT ![gidx] = PartitionedGroup(@, root_items)]
    /\ gidx' = gidx + 1
    /\ IF gidx + 1 > Len(groups)
       THEN Return("groups")
       ELSE pc' = "root_partition" /\ result' = result
    /\ UNCHANGED <<callers, remote, client>>
    /\ UNCHANGED <<collections, root_collections, collections_map, idx,
                   root_items, items_of, user_groups>>

(* -------------------- get_collections, src/raindrop.py ----------------- *)
\* the lists the merge specification feeds to each of the two fetches:
\* collections 1 and 2, top-level or nested under 1, under two titles
MergeInputs ==
    SeqsUpTo(Records(1..2, {<< >>, <<1>>}, {"a", "b"}), MaxBatch)

\* data = make_request('GET', 'collections/childrens') is None (the status
\* is not 200) or empty: `if not data: return None`
FetchChildrensNoData ==
    /\ pc = "start"
    /\ Return("None")
    /\ UNCHANGED <<callers, remote, client>>
    /\ UNCHANGED <<collections, root_collections, collections_map, idx,
                   root_items, items_of, user_groups, groups, gidx>>

\* collections = CollectionItems(**data)
FetchChildrens(inputs) ==
    /\ pc = "start"
    /\ \E s \in inputs : collections' = s
    /\ pc' = "roots"
    /\ UNCHANGED <<callers, remote, client>>
    /\ UNCHANGED <<root_collections, collections_map, idx, root_items,
                   items_of, user_groups, groups, gidx, result>>

\* root_collections = get_root_collections(True) is None:
\* `if not root_collections: return None`
FetchRootsNoData ==
    /\ pc = "roots"
    /\ Return("None")
    /\ UNCHANGED <<callers, remote, client>>
    /\ UNCHANGED <<collections, root_collections, collections_map, idx,
                   root_items, items_of, user_groups, groups, gidx>>

\* root_collections = get_root_collections(True);
\* `if not root_collections: return None`
FetchRoots(inputs) ==
    /\ pc = "roots"
    /\ \E s \in inputs :
          /\ root_collections' = s
          /\ IF s = << >>
             THEN Return("None")
             ELSE pc' = "merge" /\ result' = result
    /\ UNCHANGED <<callers, remote, client>>
    /\ UNCHANGED <<collections, collections_map, idx, root_items, items_of,
                   user_groups, groups, gidx>>

\* a slip of MergedMap: the root batch overwrites the children batch
MergedMapRootsLast(roots, children) == DictUpdate(DictOf(children), roots)

\* collections_map = {item.id: item for item in root_collections}
\* collections_map.update({item.id: item for item in collections.items})
MergedMap(roots, children) == DictUpdate(DictOf(roots), DictOf(children))

BuildMergedMap ==
    /\ pc = "merge"
    /\ collections_map' = MergedMap(root_collections, collections)
    /\ items_of' = [k \in Keys(MergedMap(root_collections, collections))
                      |-> << >>]
    /\ root_items' = FreshRootItems
    /\ idx' = 1
    /\ pc' = "loop"
    /\ UNCHANGED <<callers, remote, client>>
    /\ UNCHANGED <<collections, root_collections, user_groups, groups, gidx,
                   result>>

Next ==
    \/ FetchRaises
    \/ FetchNoData
    \/ FetchAll(TreeInputs)
    \/ BuildMap
    \/ LoopStep
    \/ GroupsRaises
    \/ GetGroups(TreeGroups)
    \/ PartitionStep
    \/ Ungrouped

Spec == Init /\ [][Next]_vars

NextPartition ==
    \/ FetchRaises
    \/ FetchNoData
    \/ FetchAll(PartitionInputs)
    \/ BuildMap
    \/ LoopStep
    \/ GroupsRaises
    \/ GetGroups(PartitionGroups)
    \/ PartitionStep
    \/ Ungrouped

SpecPartition == Init /\ [][NextPartition]_vars

NextMerge ==
    \/ FetchChildrensNoData
    \/ FetchChildrens(MergeInputs)
    \/ FetchRootsNoData
    \/ FetchRoots(MergeInputs)
    \/ BuildMergedMap
    \/ LoopStep
    \/ GetGroups(TreeGroups)
    \/ PartitionStep
    \/ Ungrouped

SpecMerge == Init /\ [][NextMerge]_vars

\* the lists the ordering specification feeds to each of the two fetches:
\* collections 1, 2 and 3, top-level or nested under 1
OrderInputs == SeqsUpTo(Records(1..3, {<< >>, <<1>>}, {"t"}), MaxBatch)

NextOrder ==
    \/ FetchChildrensNoData
    \/ FetchChildrens(OrderInputs)
    \/ FetchRootsNoData
    \/ FetchRoots(OrderInputs)
    \/ BuildMergedMap
    \/ LoopStep
    \/ GetGroups(TreeGroups)
    \/ PartitionStep
    \/ Ungrouped

SpecOrder == Init /\ [][NextOrder]_vars

(* ----------------------- repeated invocations -------------------------- *)
\* the flat lists a call of the repeated-calls specification fetches:
\* collections 1 and 2, top-level or nested under 1 or 2
CallInputs ==
    SeqsUpTo(Records(1..2, {<< >>, <<1>>, <<2>>}, {"t"}), MaxCallLen)

\* the tool raindrop_get_collections is invoked again: a new call of
\* get_collections starts; whatever the previous call left behind stays
\* where it is until this call assigns it
CallAgain ==
    /\ pc = "done"
    /\ pc' = "start"
    /\ result' = "pending"
    /\ UNCHANGED <<callers, remote, client>>
    /\ UNCHANGED <<collections, root_collections, collections_map, idx,
                   root_items, items_of, user_groups, groups, gidx>>

NextCalls ==
    \/ FetchRaises
    \/ FetchNoData
    \/ FetchAll(CallInputs)
    \/ BuildMap
    \/ LoopStep
    \/ GroupsRaises
    \/ GetGroups(TreeGroups)
    \/ PartitionStep
    \/ Ungrouped
    \/ CallAgain

SpecCalls == Init /\ [][NextCalls]_vars

(* ----------------------------- termination ----------------------------- *)
\* the lists the termination specification feeds to 'collections/all':
\* collections 1, 2 and 3, each top-level or under any of the three, itself
\* included: parent cycles of length one, two and three
CycleRecords == Records(1..3, {<< >>, <<1>>, <<2>>, <<3>>}, {"t"})

LiveInputs == SeqsUpTo(CycleRecords, MaxLiveLen)

NextLive ==
    \/ FetchRaises
    \/ FetchNoData
    \/ FetchAll(LiveInputs)
    \/ BuildMap
    \/ LoopStep
    \/ GroupsRaises
    \/ GetGroups(TreeGroups)
    \/ PartitionStep
    \/ Ungrouped

\* a call that has started keeps running: the interpreter executes the next
\* statement of get_collections whenever there is one
SpecLive == Init /\ [][NextLive]_vars /\ WF_vars(NextLive)

\* one call of any of the operations that return groups: get_collections,
\* get_top_collections or get_root_collections
NextGrouped ==
    \/ NextPartition
    \/ FetchTop(PartitionInputs)
    \/ FetchRootListNoData
    \/ FetchRootList(PartitionInputs)
    \/ GetRootGroups(PartitionGroups)
    \/ RootPartitionStep

SpecGrouped == Init /\ [][NextGrouped]_vars

\* get_root_collections of src/raindrop.py on its own
NextRootList ==
    \/ FetchRootListNoData
    \/ FetchRootList(PartitionInputs)
    \/ GetRootGroups(PartitionGroups)
    \/ RootPartitionStep

SpecRootList == Init /\ [][NextRootList]_vars

(* ------------------------ concurrent invocations ----------------------- *)
\* Two callers run get_collections of src/src/raindrop_mcp/raindrop.py at
\* the same time, one step at a time in any order.  Every name the function
\* assigns is a local of the call, so each caller has a frame of its own.
\* An `items` list belongs to a record of the mapping and lives with it.

\* the identifiers of a caller's collections: disjoint between the callers
OwnIds(p) == {2 * p - 1, 2 * p}

\* what 'collections/all' answers to caller p
ConcInputs(p) ==
    SeqsUpTo(Records(OwnIds(p), {<< >>, <<2 * p - 1>>}, {"t"}), MaxConcLen)

\* what 'user' answers to caller p
ConcGroups(p) == GroupsUpTo(1, {2 * p - 1})

\* a slip of MapSlot: the mapping is one module-level dictionary
MapSlotShared(p) == 1

\* `collections_map = {...}` binds a local name: the mapping of caller p is
\* in the frame of caller p
MapSlot(p) == p

\* the mapping and the `items` lists caller p works on
MapOf(p) == callers[MapSlot(p)].collections_map
ItemsOf(p) == callers[MapSlot(p)].items_of

\* make_request('GET', 'collections/all') raises
CFetchRaises(p) ==
    /\ callers[p].pc = "start"
    /\ callers' = [callers EXCEPT ![p].pc = "done", ![p].result = "raised"]
    /\ UNCHANGED <<remote, client, pc, collections, root_collections, collections_map, idx,
                   root_items, items_of, user_groups, groups, gidx, result>>

\* `if not data: return None`
CFetchNoData(p) ==
    /\ callers[p].pc = "start"
    /\ callers' = [callers EXCEPT ![p].pc = "done", ![p].result = "None"]
    /\ UNCHANGED <<remote, client, pc, collections, root_collections, collections_map, idx,
                   root_items, items_of, user_groups, groups, gidx, result>>

\* collections = CollectionItems(**data); `if not collections.items`
CFetchAll(p) ==
    /\ callers[p].pc = "start"
    /\ \E s \in ConcInputs(p) :
          callers' = [callers EXCEPT
              ![p].collections = s,
              ![p].pc = IF s = << >> THEN "done" ELSE "map",
              ![p].result = IF s = << >> THEN "None" ELSE @]
    /\ UNCHANGED <<remote, client, pc, collections, root_collections, collections_map, idx,
                   root_items, items_of, user_groups, groups, gidx, result>>

\* collections_map = {...}; root_items = []
CBuildMap(p) ==
    /\ callers[p].pc = "map"
    /\ LET map == DictOf(callers[p].collections) IN
          callers' = [callers EXCEPT
              ![p].root_items = << >>,
              ![p].idx = 1,
              ![p].pc = "loop",
              ![MapSlot(p)].collections_map = map,
              ![MapSlot(p)].items_of = [k \in Keys(map) |-> << >>]]
    /\ UNCHANGED <<remote, client, pc, collections, root_collections, collections_map, idx,
                   root_items, items_of, user_groups, groups, gidx, result>>

\* one iteration of the build loop of caller p
CLoopStep(p) ==
    /\ callers[p].pc = "loop"
    /\ callers[p].idx <= Len(MapOf(p))
    /\ LET out == LoopBody(MapOf(p), callers[p].root_items, ItemsOf(p),
                           MapOf(p)[callers[p].idx]) IN
          callers' = [callers EXCEPT
              ![p].root_items = out.roots,
              ![p].idx = @ + 1,
              ![p].pc = IF callers[p].idx + 1 > Len(MapOf(p))
                        THEN "groups" ELSE "loop",
              ![MapSlot(p)].items_of = out.its]
    /\ UNCHANGED <<remote, client, pc, collections, root_collections, collections_map, idx,
                   root_items, items_of, user_groups, groups, gidx, result>>

\* get_groups(): make_request('GET', 'user') raises
CGroupsRaises(p) ==
    /\ callers[p].pc = "groups"
    /\ callers' = [callers EXCEPT ![p].pc = "done", ![p].result = "raised"]
    /\ UNCHANGED <<remote, client, pc, collections, root_collections, collections_map, idx,
                   root_items, items_of, user_groups, groups, gidx, result>>

\* groups = get_groups(); `if not groups: return None`
CGetGroups(p) ==
    /\ callers[p].pc = "groups"
    /\ \E g \in ConcGroups(p) :
          callers' = [callers EXCEPT
              ![p].user_groups = g,
              ![p].groups = g,
              ![p].gidx = 1,
              ![p].pc = IF g = << >> THEN "done" ELSE "partition",
              ![p].result = IF g = << >> THEN NoGroups ELSE @]
    /\ UNCHANGED <<remote, client, pc, collections, root_collections, collections_map, idx,
                   root_items, items_of, user_groups, groups, gidx, result>>

\* one iteration of `for group in groups` of caller p
CPartitionStep(p) ==
    /\ callers[p].pc = "partition"
    /\ callers[p].gidx <= Len(callers[p].groups)
    /\ callers' = [callers EXCEPT
          ![p].groups[callers[p].gidx] =
              PartitionedGroup(@, callers[p].root_items),
          ![p].gidx = @ + 1,
          ![p].pc = IF callers[p].gidx + 1 > Len(callers[p].groups)
                    THEN "ungrouped" ELSE "partition"]
    /\ UNCHANGED <<remote, client, pc, collections, root_collections, collections_map, idx,
                   root_items, items_of, user_groups, groups, gidx, result>>

\* groups[0].items.extend(ungrouped_items); return groups
CUngrouped(p) ==
    /\ callers[p].pc = "ungrouped"
    /\ callers' = [callers EXCEPT
          ![p].groups = ExtendFirst(@, UngroupedItems(callers[p].root_items, @)),
          ![p].pc = "done",
          ![p].result = "groups"]
    /\ UNCHANGED <<remote, client, pc, collections, root_collections, collections_map, idx,
                   root_items, items_of, user_groups, groups, gidx, result>>

NextConc ==
    \E p \in Callers :
        \/ CFetchRaises(p)
        \/ CFetchNoData(p)
        \/ CFetchAll(p)
        \/ CBuildMap(p)
        \/ CLoopStep(p)
        \/ CGroupsRaises(p)
        \/ CGetGroups(p)
        \/ CPartitionStep(p)
        \/ CUngrouped(p)

SpecConc == Init /\ [][NextConc]_vars

(* --------- raindrop operations, src/src/raindrop_mcp/raindrop.py ------- *)
\* The remote data source keeps every raindrop in a collection, in the
\* trash, or nowhere.  It answers a request by raising (raise_for_status),
\* with an empty body, or with data; only an answer with data has changed
\* anything.  The raindrop tools say what a collection id means: a
\* DELETE on a collection moves raindrops to the trash, a DELETE on -99
\* removes them from the trash.

\* the remote accounts a call can meet
RemoteStates == [Drops -> {1, Trash}]

\* the collection ids a caller passes
CollectionIds == {1, Trash}

\* `search: str | None`: None, the empty string, or a term
SearchTerms == {<< >>, <<"">>, <<"s">>}

\* the raindrops the term "s" finds
SearchHits == {1}

\* `raindrop_ids: list[int] | None`: None or a list, the empty one included
IdsArgs == {<< >>} \cup {<<S>> : S \in SUBSET Drops}

\* params = {'search': search, 'nested': nested} if search else {}
Params(search, nested) ==
    IF search # << >> /\ search[1] # ""
    THEN <<[search |-> search[1], nested |-> nested]>>
    ELSE << >>

\* payload = {'ids': raindrop_ids} if raindrop_ids else {}
Payload(ids) == IF ids # << >> /\ ids[1] # {} THEN ids ELSE << >>

\* session.request(method, f'{URL}/{resource}/{id}', params=..., json=...)
Request(method, resource, id, params, json) ==
    [method |-> method, resource |-> resource, id |-> id, params |-> params,
     json |-> json]

\* the answers of make_request: it raises, returns nothing, or returns data
Raises == [kind |-> "raise", modified |-> 0]
NoData == [kind |-> "nodata", modified |-> 0]
Data(n) == [kind |-> "data", modified |-> n]

\* `if data` on an answer that came back
HasData(resp) == resp.kind = "data"

\* the raindrops of collection cid a bulk request selects: those of the
\* ids when ids are sent, those of the search when a search is sent, and
\* every raindrop of the collection when neither is
Selection(rem, cid, params, json) ==
    {d \in Drops : /\ rem[d] = cid
                   /\ json = << >> \/ d \in json[1]
                   /\ params = << >> \/ d \in SearchHits}

\* DELETE raindrops/{cid}: to the trash, or out of the trash for -99
RemoveMany(rem, cid, sel) ==
    [d \in Drops |->
        IF d \in sel THEN (IF cid = Trash THEN Gone ELSE Trash) ELSE rem[d]]

\* DELETE raindrop/{id}: to the trash, or out of it when it is there
RemoveOne(rem, id) ==
    [d \in Drops |->
        IF d = id THEN (IF rem[d] = Trash THEN Gone ELSE Trash) ELSE rem[d]]

\* the state a raindrop operation starts in
InitClient ==
    /\ pc = "start"
    /\ collections = << >>
    /\ root_collections = << >>
    /\ collections_map = << >>
    /\ idx = 1
    /\ root_items = << >>
    /\ items_of = << >>
    /\ user_groups = << >>
    /\ groups = << >>
    /\ gidx = 1
    /\ result = "pending"
    /\ callers = [p \in Callers |-> InitFrame]
    /\ remote \in RemoteStates
    /\ client = IdleClient

\* the request and its answer are added to the log of the call
Logged(req, resp) == Append(client.log, [req |-> req, resp |-> resp])

Outcome(kind, value) == [kind |-> kind, value |-> value]

(* delete_raindrop *)
\* raindrop_delete_raindrop calls delete_raindrop(raindrop_id, permanent)
CallDeleteRaindrop ==
    /\ client.pc = "idle"
    /\ \E id \in Drops, permanent \in BOOLEAN :
          client' = [IdleClient EXCEPT
              !.pc = "first", !.op = "delete_raindrop", !.args.id = id,
              !.args.permanent = permanent, !.before = remote]
    /\ UNCHANGED <<remote, callers, pc, collections, root_collections,
                   collections_map, idx, root_items, items_of, user_groups,
                   groups, gidx, result>>

\* a slip of DeleteRaindropAfterFirst: the second request does not wait for
\* the data of the first
DeleteRaindropAfterFirstUnchecked(permanent, resp) ==
    IF resp.kind = "raise" THEN [pc |-> "done", result |-> Outcome("raised", 0)]
    ELSE IF permanent
    THEN [pc |-> "second", result |-> Outcome("pending", 0)]
    ELSE [pc |-> "done",
          result |-> Outcome(IF HasData(resp) THEN "True" ELSE "False", 0)]

\* `if permanent: if not data: raise ValueError(...)`, else
\* `return True if data else False`
DeleteRaindropAfterFirst(permanent, resp) ==
    IF resp.kind = "raise" THEN [pc |-> "done", result |-> Outcome("raised", 0)]
    ELSE IF permanent
    THEN IF ~HasData(resp)
         THEN [pc |-> "done", result |-> Outcome("ValueError", 0)]
         ELSE [pc |-> "second", result |-> Outcome("pending", 0)]
    ELSE [pc |-> "done",
          result |-> Outcome(IF HasData(resp) THEN "True" ELSE "False", 0)]

\* data = make_request('DELETE', f'raindrop/{raindrop_id}')
DeleteRaindropFirst ==
    /\ client.pc = "first"
    /\ client.op = "delete_raindrop"
    /\ LET id == client.args.id
           req == Request("DELETE", "raindrop", id, << >>, << >>) IN
       \E resp \in {Raises, NoData, Data(1)} :
          /\ HasData(resp) => remote[id] # Gone
          /\ remote' = IF HasData(resp) THEN RemoveOne(remote, id) ELSE remote
          /\ LET next == DeleteRaindropAfterFirst(client.args.permanent, resp)
             IN  client' = [client EXCEPT
                    !.log = Logged(req, resp),
                    !.moved = IF HasData(resp) THEN {id} ELSE {},
                    !.pc = next.pc,
                    !.result = next.result]
    /\ UNCHANGED <<callers, pc, collections, root_collections,
                   collections_map, idx, root_items, items_of, user_groups,
                   groups, gidx, result>>

\* the second data = make_request('DELETE', f'raindrop/{raindrop_id}');
\* `return True if data else False`
DeleteRaindropSecond ==
    /\ client.pc = "second"
    /\ client.op = "delete_raindrop"
    /\ LET id == client.args.id
           req == Request("DELETE", "raindrop", id, << >>, << >>) IN
       \E resp \in {Raises, NoData, Data(1)} :
          /\ HasData(resp) => remote[id] # Gone
          /\ remote' = IF HasData(resp) THEN RemoveOne(remote, id) ELSE remote
          /\ client' = [client EXCEPT
                !.log = Logged(req, resp),
                !.pc = "done",
                !.result = Outcome(IF resp.kind = "raise" THEN "raised"
                                   ELSE IF HasData(resp) THEN "True"
                                   ELSE "False", 0)]
    /\ UNCHANGED <<callers, pc, collections, root_collections,
                   collections_map, idx, root_items, items_of, user_groups,
                   groups, gidx, result>>

(* delete_raindrops *)
\* delete_raindrops(collection_id, nested, search, raindrop_ids, permanent)
CallDeleteRaindrops ==
    /\ client.pc = "idle"
    /\ \E cid \in CollectionIds, nested \in BOOLEAN, search \in SearchTerms,
          ids \in IdsArgs, permanent \in BOOLEAN :
          client' = [IdleClient EXCEPT
              !.pc = "first", !.op = "delete_raindrops",
              !.args = [id |-> cid, nested |-> nested, search |-> search,
                        ids |-> ids, permanent |-> permanent],
              !.before = remote]
    /\ UNCHANGED <<remote, callers, pc, collections, root_collections,
                   collections_map, idx, root_items, items_of, user_groups,
                   groups, gidx, result>>

\* a slip of SecondCollection: the second request goes to the collection of
\* the first
SecondCollectionSame(cid) == cid

\* make_request('DELETE', 'raindrops/-99', ...): the second request goes to
\* the trash whatever the collection of the first
SecondCollection(cid) == Trash

\* `return UpdateDeleteRaindropsResponse(**data).modified if data else None`
ModifiedOf(resp) ==
    IF resp.kind = "raise" THEN Outcome("raised", 0)
    ELSE IF HasData(resp) THEN Outcome("modified", resp.modified)
    ELSE Outcome("None", 0)

\* data = make_request('DELETE', f'raindrops/{collection_id}', params=params,
\* json=payload); `if permanent: if not data: raise ValueError(...)`
DeleteRaindropsFirst ==
    /\ client.pc = "first"
    /\ client.op = "delete_raindrops"
    /\ LET a == client.args
           req == Request("DELETE", "raindrops", a.id,
                          Params(a.search, a.nested), Payload(a.ids))
           sel == Selection(remote, a.id, req.params, req.json) IN
       \E resp \in {Raises, NoData, Data(Cardinality(sel))} :
          /\ remote' = IF HasData(resp) THEN RemoveMany(remote, a.id, sel)
                       ELSE remote
          /\ client' = [client EXCEPT
                !.log = Logged(req, resp),
                !.moved = IF HasData(resp) THEN sel ELSE {},
                !.pc = IF a.permanent /\ HasData(resp) THEN "second"
                       ELSE "done",
                !.result = IF a.permanent /\ HasData(resp)
                           THEN Outcome("pending", 0)
                           ELSE IF a.permanent /\ resp.kind = "nodata"
                           THEN Outcome("ValueError", 0)
                           ELSE ModifiedOf(resp)]
    /\ UNCHANGED <<callers, pc, collections, root_collections,
                   collections_map, idx, root_items, items_of, user_groups,
                   groups, gidx, result>>

\* data = make_request('DELETE', 'raindrops/-99', params=params,
\* json=payload); return its modified count
DeleteRaindropsSecond ==
    /\ client.pc = "second"
    /\ client.op = "delete_raindrops"
    /\ LET a == client.args
           cid == SecondCollection(a.id)
           req == Request("DELETE", "raindrops", cid,
                          Params(a.search, a.nested), Payload(a.ids))
           sel == Selection(remote, cid, req.params, req.json) IN
       \E resp \in {Raises, NoData, Data(Cardinality(sel))} :
          /\ remote' = IF HasData(resp) THEN RemoveMany(remote, cid, sel)
                       ELSE remote
          /\ client' = [client EXCEPT
                !.log = Logged(req, resp),
                !.pc = "done",
                !.result = ModifiedOf(resp)]
    /\ UNCHANGED <<callers, pc, collections, root_collections,
                   collections_map, idx, root_items, items_of, user_groups,
                   groups, gidx, result>>

(* update_raindrops *)
\* raindrop_update_raindrops and raindrop_move_raindrops call
\* update_raindrops(collection_id, RaindropsUpdate(ids=...), nested, search)
CallUpdateRaindrops ==
    /\ client.pc = "idle"
    /\ \E cid \in CollectionIds, nested \in BOOLEAN, search \in SearchTerms,
          ids \in IdsArgs :
          client' = [IdleClient EXCEPT
              !.pc = "first", !.op = "update_raindrops",
              !.args = [id |-> cid, nested |-> nested, search |-> search,
                        ids |-> ids, permanent |-> FALSE],
              !.before = remote]
    /\ UNCHANGED <<remote, callers, pc, collections, root_collections,
                   collections_map, idx, root_items, items_of, user_groups,
                   groups, gidx, result>>

\* data = make_request('PUT', f'raindrops/{collection_id}', params=params,
\* json=raindrop.model_dump(exclude_unset=True, exclude_none=True)); the
\* fields it updates are no part of where a raindrop is
UpdateRaindropsRequest ==
    /\ client.pc = "first"
    /\ client.op = "update_raindrops"
    /\ LET a == client.args
           req == Request("PUT", "raindrops", a.id,
                          Params(a.search, a.nested), a.ids)
           sel == Selection(remote, a.id, req.params, Payload(a.ids)) IN
       \E resp \in {Raises, NoData, Data(Cardinality(sel))} :
          client' = [client EXCEPT
                !.log = Logged(req, resp),
                !.pc = "done",
                !.result = ModifiedOf(resp)]
    /\ UNCHANGED <<remote, callers, pc, collections, root_collections,
                   collections_map, idx, root_items, items_of, user_groups,
                   groups, gidx, result>>

NextClient ==
    \/ CallDeleteRaindrop
    \/ DeleteRaindropFirst
    \/ DeleteRaindropSecond
    \/ CallDeleteRaindrops
    \/ DeleteRaindropsFirst
    \/ DeleteRaindropsSecond
    \/ CallUpdateRaindrops
    \/ UpdateRaindropsRequest

SpecClient == InitClient /\ [][NextClient]_vars

(* ======================= properties: tree builder ====================== *)
\* the build loop has visited every entry of the mapping
BuildDone == collections_map # << >> /\ idx > Len(collections_map)

\* ids of the fetched records, both fetches together
InputIds == {r.id : r \in Range(root_collections) \cup Range(collections)}

RootOwner == 0 - 1

\* where the record with this id occurs in the output: <<RootOwner, i>> is
\* position i of the root list, <<k, i>> position i of the children of k
Places(id) ==
    {<<RootOwner, i>> : i \in {j \in 1..Len(root_items) : root_items[j].id = id}}
    \cup UNION {{<<k, i>> : i \in {j \in 1..Len(items_of[k]) :
                                      items_of[k][j].id = id}}
                : k \in DOMAIN items_of}

RECURSIVE Closure(_, _)
Closure(S, n) ==
    IF n = 0 THEN S
    ELSE Closure(S \cup {c.id : c \in UNION {Range(items_of[k]) : k \in S}},
                 n - 1)

\* ids of the records reachable from the root list through children lists
ReachableIds ==
    Closure({r.id : r \in Range(root_items)}, Len(collections_map))

\* C1 (as claimed): after the build loop the number of records reachable
\* from the root list equals the number of distinct ids fetched
C1_NoLoss ==
    BuildDone => Cardinality(ReachableIds) = Cardinality(InputIds)

\* C2: after the build loop no record id occurs more than once across the
\* root list and all children lists together
C2_NoDuplication ==
    BuildDone => \A id \in InputIds : Cardinality(Places(id)) <= 1

\* C2 witness: the loop finished with a record in the root list, another in
\* a children list, and a repeated id in the fetched list
C2_Witness ==
    /\ BuildDone
    /\ root_items # << >>
    /\ \E k \in DOMAIN items_of : items_of[k] # << >>
    /\ Len(collections) > Len(collections_map)

\* C3 (as claimed): a record whose parent id P is the id of a fetched record
\* is in P's children list and nowhere else, for every integer P
C3_ParentResolution ==
    BuildDone =>
        \A i \in 1..Len(collections_map) :
            LET R == collections_map[i] IN
            (R.parent # << >> /\ HasKey(collections_map, R.parent[1])) =>
                /\ R \in Range(items_of[R.parent[1]])
                /\ \A pl \in Places(R.id) : pl[1] = R.parent[1]

\* C8: a record whose parent id matches no fetched record is in the root
\* list exactly once and in no children list
C8_DanglingFallback ==
    BuildDone =>
        \A i \in 1..Len(collections_map) :
            LET R == collections_map[i] IN
            (R.parent # << >> /\ ~HasKey(collections_map, R.parent[1])) =>
                /\ R \in Range(root_items)
                /\ Cardinality(Places(R.id)) = 1

\* C8 witness: the loop finished and the root list holds a record whose
\* parent id matches no fetched record, next to a record that was attached
C8_Witness ==
    /\ BuildDone
    /\ \E r \in Range(root_items) :
          r.parent # << >> /\ ~HasKey(collections_map, r.parent[1])
    /\ \E k \in DOMAIN items_of : items_of[k] # << >>

\* C9 (as claimed): a record that names itself as parent is in the root
\* list and not in its own children list
C9_SelfReference ==
    BuildDone =>
        \A i \in 1..Len(collections_map) :
            LET R == collections_map[i] IN
            R.parent = <<R.id>> =>
                /\ R \in Range(root_items)
                /\ R \notin Range(items_of[R.id])

(* ======================== properties: partitioning ===================== *)
\* get_collections returned the partitioned groups
Partitioned == pc = "done" /\ result = "groups"

\* no fetched group lists this id as a member
Unclaimed(id) == \A g \in 1..Len(user_groups) : id \notin user_groups[g].collections

\* where the record with this id occurs in the returned groups: <<g, i>> is
\* position i of the items of group g
GroupPlaces(id) ==
    UNION {{<<g, i>> : i \in {j \in 1..Len(groups[g].items) :
                                  groups[g].items[j].id = id}}
           : g \in 1..Len(groups)}

\* C4 (as claimed): every root occurs exactly once in the returned groups'
\* items, in a group that lists it or, when no group lists it, in the first
C4_ExactlyOneGroup ==
    Partitioned =>
        \A r \in Range(root_items) :
            /\ Cardinality(GroupPlaces(r.id)) = 1
            /\ \A pl \in GroupPlaces(r.id) :
                  \/ r.id \in user_groups[pl[1]].collections
                  \/ pl[1] = 1 /\ Unclaimed(r.id)

\* C5 (as claimed): a group's items are roots that the group lists, except
\* that the first group's items also hold the roots no group lists
C5_PartitionExclusive ==
    Partitioned =>
        \A g \in 1..Len(groups) :
            \A c \in Range(groups[g].items) :
                /\ c \in Range(root_items)
                /\ \/ c.id \in user_groups[g].collections
                   \/ g = 1 /\ Unclaimed(c.id)

\* C6: when groups are returned, every root that no group lists is in the
\* items of the first group
C6_LeftoverCatchAll ==
    Partitioned =>
        \A r \in Range(root_items) :
            Unclaimed(r.id) => r \in Range(groups[1].items)

\* C6 witness: two groups were returned, a root that neither lists is in the
\* first group's items and the second group lists another root
C6_Witness ==
    /\ Partitioned
    /\ Len(groups) >= 2
    /\ \E r \in Range(root_items) :
          Unclaimed(r.id) /\ r \in Range(groups[1].items)
    /\ \E r \in Range(root_items) : r.id \in user_groups[2].collections

\* the roots no group lists, in root order
Leftover(roots) == SelectSeq(roots, LAMBDA c : Unclaimed(c.id))

\* C7 (as claimed): every group's items are the roots it lists, in root
\* order, the first group's followed by the roots no group lists
C7_ExactItems ==
    Partitioned =>
        \A g \in 1..Len(groups) :
            groups[g].items =
                Claimed(root_items, user_groups[g])
                \o (IF g = 1 THEN Leftover(root_items) ELSE << >>)

(* ===================== properties: two-fetch merge ===================== *)
\* the records of the output forest
OutputRecords ==
    Range(root_items) \cup UNION {Range(items_of[k]) : k \in DOMAIN items_of}

\* the last record of s that carries this id
LastWithId(s, id) ==
    s[CHOOSE i \in 1..Len(s) :
        /\ s[i].id = id
        /\ \A j \in (i + 1)..Len(s) : s[j].id # id]

IdsOf(s) == {r.id : r \in Range(s)}

\* C10: a record of the output forest whose id was fetched in the children
\* batch is the children batch's (last) record of that id, also when the
\* root batch has a record of the same id
C10_MergePrecedence ==
    \A r \in OutputRecords :
        r.id \in IdsOf(collections) => r = LastWithId(collections, r.id)

\* C10 witness: the loop finished and the output holds a record whose id is
\* in both batches under different titles
C10_Witness ==
    /\ BuildDone
    /\ \E r \in OutputRecords :
          /\ r.id \in IdsOf(collections)
          /\ \E a \in Range(root_collections) :
                a.id = r.id /\ a.title # r.title

(* ===================== properties: the returned value ================== *)
\* ids of the records reachable in the returned groups: the groups' items
\* and everything below them
ReturnedIds ==
    Closure({c.id : c \in UNION {Range(groups[g].items) : g \in 1..Len(groups)}},
            Len(collections_map))

\* C11 (as claimed): when groups are returned, every fetched id is reachable
\* in them, as an element of some group's items or below one
C11_Completeness ==
    Partitioned => InputIds \subseteq ReturnedIds

\* the group fetch of a call that built its tree gave no groups
NoGroupsFetched ==
    pc = "done" /\ BuildDone /\ result # "raised" /\ user_groups = << >>

\* C12 (as claimed): with zero groups get_collections returns an empty
\* sequence of groups, which is not the value of a failed call
C12_EmptySequence ==
    NoGroupsFetched => result = "groups" /\ groups = << >>

\* C12 (amended): with zero groups get_collections returns None, the value
\* it also returns when a fetch gives no data, and no group holds any root
C12_ReturnsNone ==
    NoGroupsFetched => result = "None" /\ groups = << >>

\* C12 witness: a call with roots ended on an empty group list
C12_Witness ==
    NoGroupsFetched /\ root_items # << >>

\* C13: the returned groups are the fetched groups, in the same number and
\* order and under the same titles
C13_SameGroups ==
    Partitioned =>
        /\ Len(groups) = Len(user_groups)
        /\ \A g \in 1..Len(groups) : groups[g].title = user_groups[g].title

\* C13 witness: two groups were returned and the first took a leftover root
C13_Witness ==
    /\ Partitioned
    /\ Len(user_groups) = 2
    /\ \E r \in Range(groups[1].items) : Unclaimed(r.id)

\* C14: in every group that get_collections or a grouped root-collections
\* operation returns, the member list is cleared
C14_MembersCleared ==
    Partitioned => \A g \in 1..Len(groups) : groups[g].collections = {}

\* C14 witness: two groups were returned, the first fetched with members,
\* the second with none
C14_Witness ==
    /\ Partitioned
    /\ Len(user_groups) = 2
    /\ user_groups[1].collections # {}
    /\ user_groups[2].collections = {}
    /\ groups[1].items # << >>

(* ================= properties: repeated and concurrent calls =========== *)
\* what one call makes of the data it fetched, stated on the mapping alone:
\* the roots are the entries with no parent, a parent id of 0 or a parent id
\* that is no key, in mapping order
RefRoots(map) ==
    SelectSeq(map, LAMBDA r :
        \/ r.parent = << >>
        \/ r.parent[1] = 0
        \/ ~HasKey(map, r.parent[1]))

\* the children of a key are the entries that name it as parent, in mapping
\* order (no entry is a child of key 0)
RefChildren(map) ==
    [k \in Keys(map) |->
        SelectSeq(map, LAMBDA r : k # 0 /\ r.parent = <<k>>)]

\* every group holds the roots it lists, the first group then all roots
RefGroups(roots, fetched) ==
    [g \in 1..Len(fetched) |->
        [title |-> fetched[g].title, collections |-> {},
         items |-> SelectSeq(roots, LAMBDA c : c.id \in fetched[g].collections)
                   \o (IF g = 1 THEN roots ELSE << >>)]]

\* C15: in any sequence of calls, the tree a call has built and the groups
\* it returns are determined by the list and the groups that call fetched,
\* whatever earlier calls fetched
C15_NoStateRetained ==
    /\ (pc \in {"groups", "partition", "ungrouped"} \/ Partitioned) =>
          /\ root_items = RefRoots(DictOf(collections))
          /\ items_of = RefChildren(DictOf(collections))
    /\ Partitioned =>
          groups = RefGroups(RefRoots(DictOf(collections)), user_groups)

\* C15 witness: a later call has built its tree while the groups an earlier
\* call returned are still around, holding a record this call did not fetch
C15_Witness ==
    /\ pc = "groups"
    /\ result = "pending"
    /\ root_items # << >>
    /\ \E g \in 1..Len(groups) :
          \E c \in Range(groups[g].items) : c.id \notin IdsOf(collections)

\* the frame of caller p holds the tree of caller p's own records
OwnTree(p) ==
    LET f == callers[p] IN
    /\ (f.pc \in {"groups", "partition", "ungrouped"}
          \/ (f.pc = "done" /\ f.result = "groups")) =>
          /\ f.root_items = RefRoots(DictOf(f.collections))
          /\ f.items_of = RefChildren(DictOf(f.collections))
    /\ (f.pc = "done" /\ f.result = "groups") =>
          f.groups = RefGroups(RefRoots(DictOf(f.collections)), f.user_groups)

\* a step changes the frame of at most one caller
OneFrame == \E p \in Callers : \A q \in Callers \ {p} : callers'[q] = callers[q]

\* C16: when two callers run the tree builder at the same time on disjoint
\* record sets, under every interleaving of their steps each caller gets
\* the tree and the groups it would get running alone on its own records,
\* and no step of one caller changes anything the other caller holds.
C16_Isolation == [](\A p \in Callers : OwnTree(p)) /\ [][OneFrame]_vars

\* both callers are in the middle of their build loops at the same time
C16_Witness ==
    /\ \A p \in Callers :
          /\ callers[p].pc = "loop"
          /\ callers[p].idx = 2
          /\ callers[p].root_items # << >>
    /\ callers[1].collections # callers[2].collections

\* C17: every remote fetch of get_collections, the group list included, is
\* over before the first tree-building step: while the group list is still
\* to be fetched nothing has been built, and a call that ends on the
\* transport error path has built nothing.
C17_FetchesPrecedeCore ==
    /\ pc = "groups" => collections_map = << >>
    /\ (pc = "done" /\ result = "raised") => collections_map = << >>

(* ========================= properties: ordering ======================== *)
\* the record has no parent, or a parent id that is no key of the mapping
Unresolved(map, r) == r.parent = << >> \/ ~HasKey(map, r.parent[1])

\* C18 (as claimed): the root list is the records without a parent or with
\* an unresolved parent, in the iteration order of the mapping
C18_RootOrder ==
    BuildDone =>
        root_items =
            SelectSeq(collections_map, LAMBDA r : Unresolved(collections_map, r))

\* the ids of s in the order of their first occurrence
RECURSIVE FirstIds(_)
FirstIds(s) ==
    IF s = << >> THEN << >>
    ELSE LET f == FirstIds(SubSeq(s, 1, Len(s) - 1))
             x == s[Len(s)].id
         IN  IF \E i \in 1..Len(f) : f[i] = x THEN f ELSE Append(f, x)

\* the position of the first record of s with this id, 0 when there is none
PosOf(s, id) ==
    IF id \in IdsOf(s)
    THEN CHOOSE i \in 1..Len(s) :
            s[i].id = id /\ \A j \in 1..(i - 1) : s[j].id # id
    ELSE 0

\* C19: the mapping iterates in the order of the first insertion of each
\* id, root batch first, and every children list holds its records in that
\* order, also for an id that both batches carry
C19_ChildrenOrder ==
    BuildDone =>
        /\ [i \in 1..Len(collections_map) |-> collections_map[i].id]
              = FirstIds(root_collections \o collections)
        /\ \A k \in DOMAIN items_of :
              items_of[k] =
                  SelectSeq(collections_map,
                            LAMBDA r : r \in Range(items_of[k]))

\* C19 witness: a children list holds c before d while the children batch
\* lists d before c, because the root batch carries the id of c as well
C19_Witness ==
    /\ BuildDone
    /\ \E k \in DOMAIN items_of :
          \E i, j \in 1..Len(items_of[k]) :
              LET c == items_of[k][i].id
                  d == items_of[k][j].id IN
              /\ i < j
              /\ c \in IdsOf(root_collections)
              /\ d \notin IdsOf(root_collections)
              /\ PosOf(collections, d) < PosOf(collections, c)
              /\ c # k /\ d # k

\* the record of s with this id
RecordOf(s, id) == s[PosOf(s, id)]

\* following parent references from r leads, within n hops, to a record
\* of s without a parent
RECURSIVE Climbs(_, _, _)
Climbs(s, r, n) ==
    \/ r.parent = << >>
    \/ /\ n > 0
       /\ r.parent[1] \in IdsOf(s)
       /\ Climbs(s, RecordOf(s, r.parent[1]), n - 1)

\* s is one acyclic parent chain of three or more records: distinct ids,
\* one top record, every other record under a record of s, no record with
\* two children
Chain(s) ==
    /\ Len(s) >= 3
    /\ Injective(s)
    /\ Cardinality({i \in 1..Len(s) : s[i].parent = << >>}) = 1
    /\ \A i \in 1..Len(s) : Climbs(s, s[i], Len(s))
    /\ \A i, j \in 1..Len(s) :
          (s[i].parent # << >> /\ s[i].parent = s[j].parent) => i = j

\* C20 (as claimed): for a chain listed in any order, every record is in
\* the children list of its direct parent and the top record is the only
\* root
C20_ChainOrderIndependent ==
    (BuildDone /\ Chain(collections)) =>
        \A i \in 1..Len(collections) :
            LET R == collections[i] IN
            IF R.parent = << >>
            THEN root_items = <<R>>
            ELSE /\ R \in Range(items_of[R.parent[1]])
                 /\ R \notin Range(root_items)

(* ======================== properties: termination ====================== *)
\* C21: for every finite input, parent cycles of any length included, the
\* call reaches its end, and it has then moved past each entry of the
\* mapping once: the loop position is one past the last entry
C21_Termination == <>(pc = "done" /\ idx = Len(collections_map) + 1)

\* C21 witness: the call returned its groups for an input whose three
\* records form one parent cycle
C21_Witness ==
    /\ Partitioned
    /\ Len(collections_map) = 3
    /\ \A i \in 1..3 :
          collections_map[i].parent = <<(collections_map[i].id % 3) + 1>>

(* ===================== properties: raindrop operations ================= *)
\* what `True if data else False` makes of an answer
Reflects(resp) ==
    IF resp.kind = "raise" THEN "raised"
    ELSE IF HasData(resp) THEN "True" ELSE "False"

\* C22: delete_raindrop sends DELETE raindrop/{id} once when permanent is
\* false; when permanent is true it sends it a second time, after the first
\* and only when the first returned data, and reports the second answer;
\* when the first returned no data it raises ValueError and sends nothing
\* more
C22_DeleteProtocol ==
    client.op = "delete_raindrop" =>
        LET a == client.args
            log == client.log
            req == Request("DELETE", "raindrop", a.id, << >>, << >>)
        IN  /\ \A i \in 1..Len(log) : log[i].req = req
            /\ Len(log) <= IF a.permanent THEN 2 ELSE 1
            /\ Len(log) = 2 => HasData(log[1].resp)
            /\ client.pc = "second" => Len(log) = 1
            /\ client.pc = "done" =>
                  /\ Len(log) >= 1
                  /\ ~a.permanent =>
                        client.result.kind = Reflects(log[1].resp)
                  /\ (a.permanent /\ HasData(log[1].resp)) =>
                        /\ Len(log) = 2
                        /\ client.result.kind = Reflects(log[2].resp)
                  /\ (a.permanent /\ log[1].resp = NoData) =>
                        /\ Len(log) = 1
                        /\ client.result.kind = "ValueError"

\* C22 witness: a permanent delete whose first request returned data and
\* whose second returned none has reported failure
C22_Witness ==
    /\ client.op = "delete_raindrop"
    /\ client.pc = "done"
    /\ client.args.permanent
    /\ Len(client.log) = 2
    /\ HasData(client.log[1].resp)
    /\ client.log[2].resp = NoData
    /\ client.result.kind = "False"

\* C23: delete_raindrops sends DELETE raindrops/{collection_id} first; when
\* permanent is true and the first returned data it then sends DELETE
\* raindrops/-99 with the same parameters and the same payload and returns
\* the modified count of that answer; when the first returned no data it
\* raises ValueError and sends nothing more; when permanent is false the
\* first request is the only one and its count is returned
C23_BulkDeleteProtocol ==
    client.op = "delete_raindrops" =>
        LET a == client.args
            log == client.log
        IN  /\ Len(log) <= IF a.permanent THEN 2 ELSE 1
            /\ Len(log) >= 1 =>
                  /\ log[1].req.method = "DELETE"
                  /\ log[1].req.resource = "raindrops"
                  /\ log[1].req.id = a.id
            /\ Len(log) = 2 =>
                  /\ HasData(log[1].resp)
                  /\ log[2].req = [log[1].req EXCEPT !.id = Trash]
            /\ client.pc = "second" => Len(log) = 1
            /\ client.pc = "done" =>
                  /\ Len(log) >= 1
                  /\ ~a.permanent => client.result = ModifiedOf(log[1].resp)
                  /\ (a.permanent /\ HasData(log[1].resp)) =>
                        /\ Len(log) = 2
                        /\ client.result = ModifiedOf(log[2].resp)
                  /\ (a.permanent /\ log[1].resp = NoData) =>
                        /\ Len(log) = 1
                        /\ client.result.kind = "ValueError"

\* C23 witness: a permanent bulk delete on collection 1 with ids has sent
\* both requests and returned the count of the second answer, which is not
\* the count of the first
C23_Witness ==
    /\ client.op = "delete_raindrops"
    /\ client.pc = "done"
    /\ client.args.permanent
    /\ client.args.id = 1
    /\ Len(client.log) = 2
    /\ client.log[2].req.json # << >>
    /\ client.log[2].resp.kind = "data"
    /\ client.log[2].resp.modified # client.log[1].resp.modified
    /\ client.result.value = client.log[2].resp.modified

\* C24 (as claimed, for a collection other than the trash): after a
\* permanent bulk delete every raindrop that is gone from the trash is one
\* the first request moved out of the collection, and none was in the trash
\* before the call
C24_ConfinedToSelection ==
    (/\ client.op = "delete_raindrops"
     /\ client.args.permanent
     /\ client.args.id # Trash) =>
        \A d \in Drops :
            remote[d] = Gone =>
                /\ d \in client.moved
                /\ client.before[d] # Trash

\* C27 (as claimed): a bulk update called with nested = true sends
\* nested = true in the parameters of its PUT, with or without a search
C27_NestedForwarded ==
    (client.op = "update_raindrops" /\ client.args.nested) =>
        \A i \in 1..Len(client.log) :
            LET req == client.log[i].req IN
            /\ req.method = "PUT"
            /\ req.params # << >>
            /\ req.params[1].nested

(* ====================== properties: the output forest ================== *)
\* ids of the records below the record with this id: its children, their
\* children, and so on
Below(id) ==
    Closure({c.id : c \in Range(items_of[id])}, Len(collections_map))

\* C25: no record reachable in the groups get_collections returns is below
\* itself, so a traversal of the result from the groups down comes to an
\* end
C25_ReturnedForestAcyclic ==
    Partitioned => \A id \in ReturnedIds : id \notin Below(id)

\* C25 witness: groups were returned with a record that has a child, while
\* the fetched list also had records that are below themselves
C25_Witness ==
    /\ Partitioned
    /\ \E id \in ReturnedIds : Below(id) # {}
    /\ \E k \in DOMAIN items_of : k \in Below(k)

\* C26 (as claimed): every root collection that get_root_collections
\* fetched is in the items of at least one of the groups it returns
C26_RootListComplete ==
    Partitioned =>
        \A r \in Range(collections) :
            \E g \in 1..Len(groups) : r \in Range(groups[g].items)

=============================================================================
